---- MODULE Spec2Model ----
(***************************************************************************)
(* Verification model of the event_manager user-management backend:        *)
(*   app/utils/link_generation.py   pagination links                       *)
(*   app/utils/smtp_connection.py   SMTPClient / SMTPConnection            *)
(*   app/services/email_service.py  EmailService                           *)
(*   app/routers/user_routes.py     route handlers                         *)
(* Four specifications share the variables: SpecLinks (the pure link       *)
(* builder), SpecMail (the mail dispatcher, one transport step per         *)
(* action), SpecRoutes (account creation and listing, one action per       *)
(* handler) and SpecAccounts (login and the owner-only updates on          *)
(* existing accounts).                                                     *)
(***************************************************************************)
EXTENDS Integers, Sequences, FiniteSets, TLC

VARIABLES
    page,      \* the current generate_pagination_links call: arguments and result
    mail,      \* the current send_email call: receiver object, arguments, position
    wire,      \* transport commands issued on the SMTP session of the current call
    db,        \* user records held by the persistence collaborator
    http       \* the last route-handler call: request, collaborator calls, response

vars == <<page, mail, wire, db, http>>

None == "None"

----------------------------------------------------------------------------
(* Bounds of the explored input space *)
MaxSkip == 21
MaxLimit == 10
MaxTotal == 25
MaxNeg == 1
MaxUsers == 2
MaxReqSkip == 2
MaxReqLimit == 2

----------------------------------------------------------------------------
(* Python built-ins used by the code *)

Max(a, b) == IF a >= b THEN a ELSE b

\* Python's // on ints: floor division, defined for a negative divisor too
FloorDiv(a, b) == IF b > 0 THEN a \div b ELSE (0 - a) \div (0 - b)

\* f"{n}" for an int
FormatInt(n) == ToString(n)

\* dict lookup on an insertion-ordered dict kept as a sequence of <<key, value>>
HasKey(d, k) == \E i \in 1..Len(d) : d[i][1] = k

\* dict.update(): an existing key keeps its position and takes the new value,
\* a new key is appended
DictSet(d, k, v) ==
    IF HasKey(d, k)
    THEN [i \in 1..Len(d) |-> IF d[i][1] = k THEN <<k, v>> ELSE d[i]]
    ELSE Append(d, <<k, v>>)

RECURSIVE DictUpdate(_, _)
DictUpdate(d, f) ==
    IF f = <<>> THEN d
    ELSE DictUpdate(DictSet(d, f[1][1], f[1][2]), Tail(f))

\* "&".join(f"{k}={v}" for k, v in d.items())
RECURSIVE JoinQuery(_)
JoinQuery(d) ==
    IF d = <<>> THEN ""
    ELSE d[1][1] \o "=" \o d[1][2] \o
         (IF Len(d) = 1 THEN "" ELSE "&" \o JoinQuery(Tail(d)))

----------------------------------------------------------------------------
(* app/utils/link_generation.py *)

PaginationBaseUrl == "http://testserver/users"

Link(rel, href) == [rel |-> rel, href |-> href]

\* f"{base_url}?skip={n}&limit={m}"
SkipLimitHref(n, m) ==
    PaginationBaseUrl \o "?skip=" \o FormatInt(n) \o "&limit=" \o FormatInt(m)

\* the filters argument: None, or a dict of already-textual query values
NoFilters == <<>>
FilterChoices ==
    { None,
      NoFilters,
      << <<"role", "ADMIN">> >>,
      << <<"skip", "7">> >>,
      << <<"limit", "3">> >>,
      << <<"role", "ADMIN">>, <<"skip", "7">> >> }

\* `if filters:` is false for None and for the empty dict
Truthy(filters) == filters # None /\ filters # NoFilters

query_params(skip, limit, filters) ==
    LET base == << <<"skip", FormatInt(skip)>>, <<"limit", FormatInt(limit)>> >>
    IN  IF Truthy(filters) THEN DictUpdate(base, filters) ELSE base

\* mutation: the boundary page still advertises a next page
next_present_off_by_one(skip, limit, total_items) == skip + limit <= total_items

next_present(skip, limit, total_items) == skip + limit < total_items

prev_present(skip) == skip > 0

\* mutation: the last page is computed from total_items, not total_items - 1
last_skip_from_total(limit, total_items) ==
    Max(0, FloorDiv(total_items, limit) * limit)

last_skip(limit, total_items) ==
    Max(0, FloorDiv(total_items - 1, limit) * limit)

\* the dict returned by generate_pagination_links; limit = 0 makes the
\* `// limit` of the "last" entry raise while the dict is being built
generate_pagination_links(skip, limit, total_items, filters) ==
    IF limit = 0
    THEN [raised |-> "ZeroDivisionError", links |-> <<>>]
    ELSE [raised |-> None,
          links |->
            ("self" :> Link("self", PaginationBaseUrl \o "?" \o
                                    JoinQuery(query_params(skip, limit, filters))))
            @@ ("first" :> Link("first", SkipLimitHref(0, limit)))
            @@ ("last" :> Link("last", SkipLimitHref(last_skip(limit, total_items), limit)))
            @@ (IF next_present(skip, limit, total_items)
                THEN "next" :> Link("next", SkipLimitHref(skip + limit, limit))
                ELSE <<>>)
            @@ (IF prev_present(skip)
                THEN "prev" :> Link("prev", SkipLimitHref(Max(0, skip - limit), limit))
                ELSE <<>>)]

SkipRange == (0 - MaxNeg)..MaxSkip
LimitRange == (0 - MaxNeg)..MaxLimit
TotalRange == (0 - MaxNeg)..MaxTotal

IdlePage == [pc |-> "args", skip |-> 0, limit |-> 1, total |-> 0,
             filters |-> None, raised |-> None, links |-> <<>>]
IdleMail ==
    [pc |-> "idle", caller |-> None, email_type |-> None, user_email |-> None,
     rendered |-> None, cls |-> None, attrs |-> <<>>, subject |-> None,
     content |-> None, html_content |-> None, recipient |-> None,
     message |-> <<>>, session |-> "none", failed_at |-> None, raised |-> None,
     template |-> None]
IdleHttp ==
    [handler |-> None, args |-> <<>>, fault |-> None, status |-> 0,
     detail |-> None, calls |-> <<>>, changed |-> FALSE, user |-> <<>>,
     token |-> <<>>, window |-> <<>>, links |-> <<>>, page_no |-> 0, size |-> 0]

InitLinks ==
    /\ \E s \in SkipRange, l \in LimitRange, t \in TotalRange, f \in FilterChoices :
          page = [IdlePage EXCEPT !.skip = s, !.limit = l, !.total = t, !.filters = f]
    /\ mail = IdleMail
    /\ wire = <<>>
    /\ db = {}
    /\ http = IdleHttp

GeneratePaginationLinks ==
    /\ page.pc = "args"
    /\ LET r == generate_pagination_links(page.skip, page.limit, page.total, page.filters)
       IN  page' = [page EXCEPT !.pc = "returned", !.raised = r.raised, !.links = r.links]
    /\ UNCHANGED <<mail, wire, db, http>>

NextLinks == GeneratePaginationLinks

SpecLinks == InitLinks /\ [][NextLinks]_vars

----------------------------------------------------------------------------
(* app/utils/smtp_connection.py *)

\* instance attributes set by SMTPClient.__init__ and SMTPConnection.__init__
\* (both constructors assign the same five names)
smtp_init(host, port, username, password, use_tls) ==
    [smtp_host |-> host, smtp_port |-> port, smtp_user |-> username,
     smtp_pass |-> password, use_tls |-> use_tls]

\* self.<name>: AttributeError unless __init__ assigned the name
HasAttr(attrs, name) == name \in DOMAIN attrs

\* Python `a or b`: None and the empty string are falsy
PyOr(a, b) == IF a # None /\ a # "" THEN a ELSE b

\* binding of positional arguments to
\* send_email(self, subject, content=None, html_content=None, recipient=None)
bind_send_email(args) ==
    [subject      |-> args[1],
     content      |-> IF Len(args) >= 2 THEN args[2] ELSE None,
     html_content |-> IF Len(args) >= 3 THEN args[3] ELSE None,
     recipient    |-> IF Len(args) >= 4 THEN args[4] ELSE None]

MimeMessage(subject, from, to, body) ==
    [Subject |-> subject, From |-> from, To |-> to, body |-> body]

Cmd(cmd, ok) == [cmd |-> cmd, ok |-> ok]

\* mutation: an exception inside the with block skips the context exit
raise_in_session_no_exit(m, step, exc) ==
    [m EXCEPT !.failed_at = step, !.raised = exc, !.pc = "returned"]

\* an exception raised inside `with smtplib.SMTP(...) as server:` leaves the
\* block through the context manager's exit before it reaches `except`
raise_in_session(m, step, exc) ==
    [m EXCEPT !.failed_at = step, !.raised = exc, !.pc = "exit"]

\* an exception raised outside the with block goes to `except ...: raise`
raise_outside_session(m, step, exc) ==
    [m EXCEPT !.failed_at = step, !.raised = exc, !.pc = "returned"]

Callable == mail.pc \in {"idle", "returned"}

\* SMTPClient.send_email, lines 17-25: bind the arguments, build the message
start_SMTPClient_send_email(caller, attrs, b) ==
    LET body == PyOr(b.html_content, b.content)
        m0 == [IdleMail EXCEPT !.caller = caller, !.cls = "SMTPClient",
                               !.attrs = attrs, !.subject = b.subject,
                               !.content = b.content,
                               !.html_content = b.html_content,
                               !.recipient = b.recipient]
    IN  IF body = None
        THEN raise_outside_session(m0, "message", "AttributeError")
        ELSE [m0 EXCEPT !.message = << MimeMessage(b.subject, attrs.smtp_user,
                                                   b.recipient, body) >>,
                        !.pc = "connect"]

Subjects == {"Verify Your Account", "Hello"}
Bodies == {None, "", "plain text", "<p>html</p>"}
Recipients == {None, "ann@example.com"}

SMTPClientSendEmail ==
    /\ Callable
    /\ \E use_tls \in BOOLEAN, subject \in Subjects, content \in Bodies,
          html_content \in Bodies, recipient \in Recipients :
          mail' = start_SMTPClient_send_email("direct",
                      smtp_init("smtp.example.com", 587, "user", "pass", use_tls),
                      [subject |-> subject, content |-> content,
                       html_content |-> html_content, recipient |-> recipient])
    /\ wire' = <<>>
    /\ UNCHANGED <<page, db, http>>

\* SMTPConnection.send_email(subject, content, recipient), line 47
SMTPConnectionSendEmail ==
    /\ Callable
    /\ \E use_tls \in BOOLEAN, subject \in Subjects,
          content \in Bodies \ {None}, recipient \in Recipients \ {None} :
          mail' = [IdleMail EXCEPT !.caller = "direct", !.cls = "SMTPConnection",
                      !.attrs = smtp_init("smtp.example.com", 587, "user", "pass", use_tls),
                      !.subject = subject, !.content = content,
                      !.recipient = recipient, !.pc = "connect"]
    /\ wire' = <<>>
    /\ UNCHANGED <<page, db, http>>

\* smtplib.SMTP(self.smtp_host, self.smtp_port): the session opens or the
\* constructor raises
Connect ==
    /\ mail.pc = "connect"
    /\ \E ok \in BOOLEAN :
          /\ wire' = Append(wire, Cmd("connect", ok))
          /\ mail' = IF ok
                     THEN [mail EXCEPT !.session = "open",
                              !.pc = IF mail.cls = "SMTPConnection" \/ mail.attrs.use_tls
                                     THEN "starttls" ELSE "login"]
                     ELSE raise_outside_session(mail, "connect", "OSError")
    /\ UNCHANGED <<page, db, http>>

\* server.starttls(): line 27 (guarded by self.use_tls at line 26) and line 51
StartTLS ==
    /\ mail.pc = "starttls"
    /\ \E ok \in BOOLEAN :
          /\ wire' = Append(wire, Cmd("starttls", ok))
          /\ mail' = IF ok THEN [mail EXCEPT !.pc = "login"]
                     ELSE raise_in_session(mail, "starttls", "SMTPException")
    /\ UNCHANGED <<page, db, http>>

\* the attribute names each class reads for the login call
login_attrs(cls) ==
    IF cls = "SMTPClient" THEN {"smtp_user", "smtp_pass"}
    ELSE {"username", "password"}

\* server.login(...): line 28 and line 52; the arguments are evaluated first
Login ==
    /\ mail.pc = "login"
    /\ IF \A a \in login_attrs(mail.cls) : HasAttr(mail.attrs, a)
       THEN \E ok \in BOOLEAN :
              /\ wire' = Append(wire, Cmd("login", ok))
              /\ mail' = IF ok THEN [mail EXCEPT !.pc = "send_message"]
                         ELSE raise_in_session(mail, "login", "SMTPAuthenticationError")
       ELSE /\ wire' = wire
            /\ mail' = raise_in_session(mail, "login", "AttributeError")
    /\ UNCHANGED <<page, db, http>>

\* the attribute SMTPConnection reads for the From header, line 55
from_attr(cls) == IF cls = "SMTPClient" THEN "smtp_user" ELSE "username"

\* server.send_message(...): line 29; lines 53-57 build the message first.
\* A message without a To address has no recipient to accept it.
SendMessage ==
    /\ mail.pc = "send_message"
    /\ IF mail.cls = "SMTPConnection" /\ ~HasAttr(mail.attrs, from_attr(mail.cls))
       THEN /\ wire' = wire
            /\ mail' = raise_in_session(mail, "send_message", "AttributeError")
       ELSE LET msg == IF mail.cls = "SMTPClient" THEN mail.message[1]
                       ELSE MimeMessage(mail.subject, mail.attrs[from_attr(mail.cls)],
                                        mail.recipient, mail.content)
            IN  \E ok \in (IF msg.To = None THEN {FALSE} ELSE BOOLEAN) :
                  /\ wire' = Append(wire, [cmd |-> "send_message", ok |-> ok, msg |-> msg])
                  /\ mail' = IF ok THEN [mail EXCEPT !.message = <<msg>>, !.pc = "exit"]
                             ELSE raise_in_session([mail EXCEPT !.message = <<msg>>],
                                                   "send_message", "SMTPException")
    /\ UNCHANGED <<page, db, http>>

\* leaving the with block: the session is quit and closed, then the call
\* returns (line 30) or the pending exception is logged and re-raised
\* (lines 31-33, 58-60)
Exit ==
    /\ mail.pc = "exit"
    /\ wire' = Append(wire, Cmd("quit", TRUE))
    /\ mail' = [mail EXCEPT !.session = "closed", !.pc = "returned"]
    /\ UNCHANGED <<page, db, http>>

----------------------------------------------------------------------------
(* app/services/email_service.py *)

subject_map ==
    [email_verification |-> "Verify Your Account",
     verification_email |-> "Verify Your Account",
     password_reset     |-> "Password Reset Instructions",
     account_locked     |-> "Account Locked Notification"]

EmailTypes == DOMAIN subject_map \cup {"newsletter"}

\* TemplateManager.render_email_template: the rendered HTML of the template
RenderedTemplate(email_type, user_data) ==
    "<html>" \o email_type \o " for " \o user_data.name \o "</html>"

UserDataChoices == [name : {"Ann"}, email : {"ann@example.com", "bob@example.com"}]

\* EmailService.__init__: the dispatcher is built with use_tls left at its default
EmailService_smtp_client == smtp_init("smtp.example.com", 587, "user", "pass", TRUE)

\* TemplateManager.render_email_template: the rendered HTML, or the
\* ValueError of the template reader when the template file is absent
render_email_template(email_type, user_data, template_exists) ==
    IF template_exists
    THEN [raised |-> None, html |-> RenderedTemplate(email_type, user_data)]
    ELSE [raised |-> "ValueError", html |-> None]

\* line 30: self.smtp_client.send_email(subject, html_content, email)
dispatch_user_email(user_data, email_type, html, template) ==
    LET m == start_SMTPClient_send_email("EmailService", EmailService_smtp_client,
                 bind_send_email(<<subject_map[email_type], html, user_data["email"]>>))
    IN  [m EXCEPT !.email_type = email_type, !.user_email = user_data.email,
                  !.rendered = html, !.template = template]

EmailServiceCall(user_data, email_type) ==
    [IdleMail EXCEPT !.caller = "EmailService", !.email_type = email_type,
                     !.user_email = user_data.email]

\* mutation: a failing template reader is swallowed and an empty body is sent
send_user_email_swallows_render_error(user_data, email_type, template_exists) ==
    LET svc == EmailServiceCall(user_data, email_type)
    IN  IF email_type \notin DOMAIN subject_map
        THEN raise_outside_session(svc, "email_type", "ValueError")
        ELSE LET t == render_email_template(email_type, user_data, template_exists)
             IN  IF t.raised # None
                 THEN dispatch_user_email(user_data, email_type, "", "missing")
                 ELSE dispatch_user_email(user_data, email_type, t.html, "found")

\* EmailService.send_user_email, lines 18-30
send_user_email(user_data, email_type, template_exists) ==
    LET svc == EmailServiceCall(user_data, email_type)
    IN  IF email_type \notin DOMAIN subject_map
        THEN raise_outside_session(svc, "email_type", "ValueError")
        ELSE LET t == render_email_template(email_type, user_data, template_exists)
             IN  IF t.raised # None
                 THEN raise_outside_session([svc EXCEPT !.template = "missing"],
                                            "render", t.raised)
                 ELSE dispatch_user_email(user_data, email_type, t.html, "found")

SendUserEmail ==
    /\ Callable
    /\ \E user_data \in UserDataChoices, email_type \in EmailTypes,
          template_exists \in BOOLEAN :
          mail' = send_user_email(user_data, email_type, template_exists)
    /\ wire' = <<>>
    /\ UNCHANGED <<page, db, http>>

InitMail ==
    /\ page = IdlePage
    /\ mail = IdleMail
    /\ wire = <<>>
    /\ db = {}
    /\ http = IdleHttp

NextMail ==
    \/ SMTPClientSendEmail
    \/ SMTPConnectionSendEmail
    \/ SendUserEmail
    \/ Connect
    \/ StartTLS
    \/ Login
    \/ SendMessage
    \/ Exit

SpecMail == InitMail /\ [][NextMail]_vars

----------------------------------------------------------------------------
(* Collaborators of the route handlers: the persistence-backed user        *)
(* service, the token issuer and the authentication dependencies           *)

Ids == 1..MaxUsers
Emails == {"ann@example.com", "bob@example.com"}
Nicknames == {"ann", "bob"}
Roles == {"ADMIN", "USER"}
Passwords == {"Secret*1", "wrong"}

UserCreateChoices == [email : Emails, nickname : Nicknames]

User(id, data, role) ==
    [id |-> id, email |-> data.email, nickname |-> data.nickname, role |-> role,
     locked |-> FALSE, profile_picture_url |-> None,
     linkedin_profile_url |-> None, github_profile_url |-> None]

\* lookups return the matching records: empty means "no such user"
get_by_id(dbv, id) == {u \in dbv : u.id = id}
get_by_email(dbv, email) == {u \in dbv : u.email = email}
get_by_nickname(dbv, nickname) == {u \in dbv : u.nickname = nickname}
count(dbv) == Cardinality(dbv)

FreeIds(dbv) == {i \in Ids : get_by_id(dbv, i) = {}}

\* UserService.create: stores and returns the new user, or returns nothing
UserService_create(dbv, data, role, stored) ==
    IF stored /\ FreeIds(dbv) # {}
    THEN LET id == CHOOSE i \in FreeIds(dbv) : \A j \in FreeIds(dbv) : i <= j
             u == User(id, data, role)
         IN  [user |-> <<u>>, db |-> dbv \cup {u}]
    ELSE [user |-> <<>>, db |-> dbv]

\* UserService.list_users: the users of the window, in id order; a window
\* the storage cannot serve yields no rows
UserService_list_users(dbv, skip, limit) ==
    IF skip < 0 \/ limit < 0 THEN {}
    ELSE {u \in dbv :
            LET rank == Cardinality({v \in dbv : v.id < u.id})
            IN  rank >= skip /\ rank < skip + limit}

\* text of the exception an unavailable collaborator raises
ExcTexts == {"connection to 10.0.0.5:5432 refused", "query timed out"}

----------------------------------------------------------------------------
(* app/routers/user_routes.py *)

HTTPException(status_code, detail) ==
    [type |-> "HTTPException", status_code |-> status_code, detail |-> detail]

UnexpectedError(type, text) == [type |-> type, status_code |-> 0, detail |-> text]

\* str(e): an HTTPException prints "<status>: <detail>", any other exception
\* prints its message
str(e) ==
    IF e.type = "HTTPException" THEN FormatInt(e.status_code) \o ": " \o e.detail
    ELSE e.detail

Raise(e, calls, dbv) ==
    [raised |-> <<e>>, status |-> 0, user |-> <<>>, calls |-> calls, db |-> dbv]

Return(status, user, calls, dbv) ==
    [raised |-> <<>>, status |-> status, user |-> user, calls |-> calls, db |-> dbv]

\* what the framework answers for the result of a handler body: the returned
\* status, the status/detail of a raised HTTPException, or 500 for any other
\* exception that escapes the handler
Respond(handler, args, fault, r, dbv) ==
    [IdleHttp EXCEPT
        !.handler = handler, !.args = args, !.fault = fault,
        !.status = IF r.raised = <<>> THEN r.status
                   ELSE IF r.raised[1].type = "HTTPException"
                        THEN r.raised[1].status_code ELSE 500,
        !.detail = IF r.raised = <<>> THEN None
                   ELSE IF r.raised[1].type = "HTTPException"
                        THEN r.raised[1].detail ELSE "Internal Server Error",
        !.calls = r.calls, !.changed = (r.db # dbv), !.user = r.user]

\* `except Exception as e: raise HTTPException(500, detail=str(e))`,
\* lines 171-175 and 264-268: HTTPException is an Exception too
except_Exception(r) ==
    IF r.raised = <<>> THEN r
    ELSE [r EXCEPT !.raised = <<HTTPException(500, str(r.raised[1]))>>]

LoginErrorDetail ==
    "An unexpected error occurred during authentication. Please try again later."

\* mutation: login wraps every exception, its own HTTPException included,
\* the way register and create_user do
except_login_catch_all(r) ==
    IF r.raised = <<>> THEN r
    ELSE [r EXCEPT !.raised = <<HTTPException(500, LoginErrorDetail)>>]

\* `except HTTPException: raise` followed by `except Exception`, lines 308-314
except_login(r) ==
    IF r.raised = <<>> \/ r.raised[1].type = "HTTPException" THEN r
    ELSE [r EXCEPT !.raised = <<HTTPException(500, LoginErrorDetail)>>]

\* a collaborator call either goes through or raises env.text
Faulty(env, call) == env.fault_at = call

\* body of the try block of create_user, lines 142-170
create_user_try(dbv, user, env) ==
    IF Faulty(env, "get_by_email")
    THEN Raise(UnexpectedError("Exception", env.text), <<"get_by_email">>, dbv)
    ELSE IF get_by_email(dbv, user.email) # {}
    THEN Raise(HTTPException(400, "Email already exists"), <<"get_by_email">>, dbv)
    ELSE IF Faulty(env, "create")
    THEN Raise(UnexpectedError("Exception", env.text), <<"get_by_email", "create">>, dbv)
    ELSE LET c == UserService_create(dbv, user, env.role, env.stored)
         IN  IF c.user = <<>>
             THEN Raise(HTTPException(500, "Failed to create user"),
                        <<"get_by_email", "create">>, dbv)
             ELSE Return(201, c.user, <<"get_by_email", "create">>, c.db)

create_user(dbv, user, env) == except_Exception(create_user_try(dbv, user, env))

\* body of the try block of register, lines 227-262
register_try(dbv, user_data, env) ==
    IF Faulty(env, "get_by_email")
    THEN Raise(UnexpectedError("Exception", env.text), <<"get_by_email">>, dbv)
    ELSE IF get_by_email(dbv, user_data.email) # {}
    THEN Raise(HTTPException(400, "Email already registered"), <<"get_by_email">>, dbv)
    ELSE IF Faulty(env, "get_by_nickname")
    THEN Raise(UnexpectedError("Exception", env.text),
               <<"get_by_email", "get_by_nickname">>, dbv)
    ELSE IF get_by_nickname(dbv, user_data.nickname) # {}
    THEN Raise(HTTPException(400, "Nickname already taken"),
               <<"get_by_email", "get_by_nickname">>, dbv)
    ELSE IF Faulty(env, "create")
    THEN Raise(UnexpectedError("Exception", env.text),
               <<"get_by_email", "get_by_nickname", "create">>, dbv)
    ELSE LET c == UserService_create(dbv, user_data, env.role, env.stored)
             calls == <<"get_by_email", "get_by_nickname", "create">>
         IN  IF c.user = <<>>
             THEN Raise(UnexpectedError("AttributeError",
                            "'NoneType' object has no attribute 'id'"), calls, dbv)
             ELSE Return(201, c.user, calls, c.db)

register(dbv, user_data, env) == except_Exception(register_try(dbv, user_data, env))

\* the collaborators' behaviour during one call: which call (if any) raises
\* and with what text, the role the service gives a new user, and whether
\* create stores it
CreateEnv ==
    [fault_at : {None}, text : {None}, role : Roles, stored : BOOLEAN]
    \cup [fault_at : {"get_by_email", "get_by_nickname", "create"},
          text : ExcTexts, role : {"USER"}, stored : {TRUE}]

FaultOf(env, r) ==
    IF env.fault_at # None /\ r.calls # <<>> /\ r.calls[Len(r.calls)] = env.fault_at
    THEN env.text ELSE None

CreateUser ==
    /\ \E user \in UserCreateChoices, env \in CreateEnv :
          LET r == create_user(db, user, env)
          IN  /\ db' = r.db
              /\ http' = Respond("create_user",
                                 [email |-> user.email, nickname |-> user.nickname,
                                  email_taken |-> get_by_email(db, user.email) # {}],
                                 FaultOf(env, r), r, db)
    /\ UNCHANGED <<page, mail, wire>>

Register ==
    /\ \E user_data \in UserCreateChoices, env \in CreateEnv :
          LET r == register(db, user_data, env)
          IN  /\ db' = r.db
              /\ http' = Respond("register",
                                 [email |-> user_data.email, nickname |-> user_data.nickname,
                                  email_taken |-> get_by_email(db, user_data.email) # {}],
                                 FaultOf(env, r), r, db)
    /\ UNCHANGED <<page, mail, wire>>

\* require_role(["ADMIN", "MANAGER"]): the dependency rejects other roles
\* before the handler body runs
RequesterRoles == {"ADMIN", "MANAGER", "USER"}
require_role(allowed, role) == role \in allowed

ReqSkipRange == (0 - MaxNeg)..MaxReqSkip
ReqLimitRange == (0 - MaxNeg)..MaxReqLimit

ListEnv ==
    [fault_at : {None}, text : {None}]
    \cup [fault_at : {"count", "list_users"}, text : ExcTexts]

\* list_users, lines 178-202: skip and limit arrive as any int the query
\* string carries
ListUsers ==
    /\ \E skip \in ReqSkipRange, limit \in ReqLimitRange,
          role \in RequesterRoles, env \in ListEnv :
          LET args == [skip |-> skip, limit |-> limit, role |-> role]
              denied == Raise(HTTPException(403, "Operation not permitted"), <<>>, db)
              failed(calls) == Raise(UnexpectedError("Exception", env.text), calls, db)
              total_users == count(db)
              users == UserService_list_users(db, skip, limit)
              g == generate_pagination_links(skip, limit, total_users, None)
              calls == <<"count", "list_users">>
          IN  http' =
                IF ~require_role({"ADMIN", "MANAGER"}, role)
                THEN Respond("list_users", args, None, denied, db)
                ELSE IF Faulty(env, "count")
                THEN Respond("list_users", args, env.text, failed(<<"count">>), db)
                ELSE IF Faulty(env, "list_users")
                THEN Respond("list_users", args, env.text, failed(calls), db)
                ELSE IF g.raised # None
                THEN [Respond("list_users", args, None,
                              Raise(UnexpectedError(g.raised, "integer division or modulo by zero"),
                                    calls, db), db)
                        EXCEPT !.window = <<[skip |-> skip, limit |-> limit,
                                             total |-> total_users]>>]
                ELSE [Respond("list_users", args, None, Return(200, <<>>, calls, db), db)
                        EXCEPT !.window = <<[skip |-> skip, limit |-> limit,
                                             total |-> total_users]>>,
                               !.links = g.links,
                               !.page_no = FloorDiv(skip, limit) + 1,
                               !.size = Cardinality(users)]
    /\ UNCHANGED <<page, mail, wire, db>>

InitRoutes ==
    /\ page = IdlePage
    /\ mail = IdleMail
    /\ wire = <<>>
    /\ db = {}
    /\ http = IdleHttp

NextRoutes ==
    \/ CreateUser
    \/ Register
    \/ ListUsers

SpecRoutes == InitRoutes /\ [][NextRoutes]_vars

----------------------------------------------------------------------------
(* Handlers working on existing accounts: login and the owner-only updates *)

\* expiry configured in settings.access_token_expire_minutes
AccessTokenExpireMinutes == 30

\* password each account was registered with
PasswordOf(u) == "Secret*1"

is_account_locked(dbv, username) == \E u \in get_by_email(dbv, username) : u.locked

\* UserService.login_user: the user whose email and password match; a wrong
\* password may be the attempt that locks the account
login_user(dbv, username, password, lockout) ==
    LET match == {u \in get_by_email(dbv, username) : PasswordOf(u) = password}
    IN  IF match # {} THEN [user |-> match, db |-> dbv]
        ELSE [user |-> {},
              db |-> {IF u.email = username /\ lockout
                      THEN [u EXCEPT !.locked = TRUE] ELSE u : u \in dbv}]

\* JWTService.create_access_token(data, expires_delta): the token's claims
create_access_token(data, expires_minutes) ==
    [sub |-> data.sub, role |-> data.role, ttl |-> expires_minutes]

LoginEnv ==
    [fault_at : {None}, text : {None}, lockout : BOOLEAN]
    \cup [fault_at : {"is_account_locked", "login_user", "create_access_token"},
          text : ExcTexts, lockout : {FALSE}]

RaiseL(e, calls, dbv) ==
    [raised |-> <<e>>, status |-> 0, user |-> <<>>, calls |-> calls, db |-> dbv,
     token |-> <<>>]

\* body of the try block of login, lines 288-306
login_try(dbv, form_data, env) ==
    IF Faulty(env, "is_account_locked")
    THEN RaiseL(UnexpectedError("Exception", env.text), <<"is_account_locked">>, dbv)
    ELSE IF is_account_locked(dbv, form_data.username)
    THEN RaiseL(HTTPException(400, "Account locked due to too many failed login attempts."),
                <<"is_account_locked">>, dbv)
    ELSE IF Faulty(env, "login_user")
    THEN RaiseL(UnexpectedError("Exception", env.text),
                <<"is_account_locked", "login_user">>, dbv)
    ELSE LET l == login_user(dbv, form_data.username, form_data.password, env.lockout)
         IN  IF l.user = {}
             THEN RaiseL(HTTPException(401, "Incorrect email or password"),
                         <<"is_account_locked", "login_user">>, l.db)
             ELSE IF Faulty(env, "create_access_token")
             THEN RaiseL(UnexpectedError("Exception", env.text),
                         <<"is_account_locked", "login_user", "create_access_token">>, l.db)
             ELSE LET user == CHOOSE u \in l.user : TRUE
                  IN  [raised |-> <<>>, status |-> 200, user |-> <<>>,
                       calls |-> <<"is_account_locked", "login_user", "create_access_token">>,
                       db |-> l.db,
                       token |-> << create_access_token(
                                       [sub |-> user.email, role |-> user.role],
                                       AccessTokenExpireMinutes) >>]

login(dbv, form_data, env) == except_login(login_try(dbv, form_data, env))

LoginHandler ==
    /\ \E username \in Emails, password \in Passwords, env \in LoginEnv :
          LET form_data == [username |-> username, password |-> password]
              r == login(db, form_data, env)
          IN  /\ db' = r.db
              /\ http' = [Respond("login",
                                  [username |-> username, password |-> password,
                                   locked |-> is_account_locked(db, username),
                                   matched |-> login_user(db, username, password,
                                                          env.lockout).user # {}],
                                  FaultOf(env, r), r, db)
                            EXCEPT !.token = r.token]
    /\ UNCHANGED <<page, mail, wire>>

\* get_current_user: the authenticated requester, as a dict carrying
\* "user_id" or as a User object carrying .id
CurrentUserShapes == {"dict", "User"}
CurrentUsers == [shape : CurrentUserShapes, id : Ids]

\* current_user["user_id"]: only a dict can be subscripted
subscript_user_id(current_user) ==
    IF current_user.shape = "dict" THEN [raised |-> None, value |-> current_user.id]
    ELSE [raised |-> "TypeError", value |-> 0]

\* current_user.id: only the User object has the attribute
attribute_id(current_user) ==
    IF current_user.shape = "User" THEN [raised |-> None, value |-> current_user.id]
    ELSE [raised |-> "AttributeError", value |-> 0]

\* the user service's update operations: the updated record when the user
\* exists, nothing otherwise
UserService_update(dbv, user_id, field_values) ==
    LET found == get_by_id(dbv, user_id)
    IN  IF found = {} THEN [user |-> <<>>, db |-> dbv]
        ELSE LET old == CHOOSE u \in found : TRUE
                 new == [f \in DOMAIN old |->
                            IF f \in DOMAIN field_values THEN field_values[f] ELSE old[f]]
             IN  [user |-> <<new>>, db |-> (dbv \ {old}) \cup {new}]

UpdateEnv ==
    [fault_at : {None}, text : {None}] \cup [fault_at : {"update"}, text : ExcTexts]

\* str(requester id) != str(user_id), lines 337, 351 and 371
not_owner(requester_id, user_id) == FormatInt(requester_id) # FormatInt(user_id)

\* the shared shape of the three owner-only handlers: read the requester's
\* id, compare, call the service; missing is what a missing user leads to
owner_update(dbv, user_id, requester, field_values, env, missing, forbidden_detail) ==
    IF requester.raised # None
    THEN Raise(UnexpectedError(requester.raised, "current_user"), <<>>, dbv)
    ELSE IF not_owner(requester.value, user_id)
    THEN Raise(HTTPException(403, forbidden_detail), <<>>, dbv)
    ELSE IF Faulty(env, "update")
    THEN Raise(UnexpectedError("Exception", env.text), <<"update">>, dbv)
    ELSE LET u == UserService_update(dbv, user_id, field_values)
         IN  IF u.user = <<>> THEN Raise(missing, <<"update">>, dbv)
             ELSE Return(200, u.user, <<"update">>, u.db)

PictureUrls == {"https://example.com/ann.png"}

\* update_profile_picture, lines 330-342
UpdateProfilePicture ==
    /\ \E user_id \in Ids, current_user \in CurrentUsers, url \in PictureUrls,
          env \in UpdateEnv :
          LET r == owner_update(db, user_id, subscript_user_id(current_user),
                                [profile_picture_url |-> url], env,
                                HTTPException(404, "User not found"),
                                "Not authorized to update this profile")
          IN  /\ db' = r.db
              /\ http' = Respond("update_profile_picture",
                                 [user_id |-> user_id, requester |-> current_user.id,
                                  shape |-> current_user.shape,
                                  exists |-> get_by_id(db, user_id) # {}],
                                 FaultOf(env, r), r, db)
    /\ UNCHANGED <<page, mail, wire>>

\* professional_info: dict, read with .get(): a missing key gives None
ProfessionalInfoChoices ==
    { <<>>, << <<"linkedin_url", "https://linkedin.com/in/ann">>,
               <<"github_url", "https://github.com/ann">> >> }

DictGet(d, k) ==
    IF HasKey(d, k) THEN d[CHOOSE i \in 1..Len(d) : d[i][1] = k][2] ELSE None

\* update_user_professional_info, lines 344-362: the service result is
\* returned as it is, and a result of None fails the response model
UpdateUserProfessionalInfo ==
    /\ \E user_id \in Ids, current_user \in CurrentUsers,
          professional_info \in ProfessionalInfoChoices, env \in UpdateEnv :
          LET r == owner_update(db, user_id, attribute_id(current_user),
                                [linkedin_profile_url |-> DictGet(professional_info, "linkedin_url"),
                                 github_profile_url |-> DictGet(professional_info, "github_url")],
                                env,
                                UnexpectedError("ResponseValidationError", "response is None"),
                                "Not authorized to update this user")
          IN  /\ db' = r.db
              /\ http' = Respond("update_user_professional_info",
                                 [user_id |-> user_id, requester |-> current_user.id,
                                  shape |-> current_user.shape,
                                  exists |-> get_by_id(db, user_id) # {}],
                                 FaultOf(env, r), r, db)
    /\ UNCHANGED <<page, mail, wire>>

ProfessionalDataChoices ==
    [linkedin_profile_url : {"https://linkedin.com/in/ann"},
     github_profile_url : {None, "https://github.com/ann"}]

\* update_professional_info, lines 364-376
UpdateProfessionalInfo ==
    /\ \E user_id \in Ids, current_user \in CurrentUsers,
          professional_data \in ProfessionalDataChoices, env \in UpdateEnv :
          LET r == owner_update(db, user_id, subscript_user_id(current_user),
                                professional_data, env,
                                HTTPException(404, "User not found"),
                                "Not authorized to update this profile")
          IN  /\ db' = r.db
              /\ http' = Respond("update_professional_info",
                                 [user_id |-> user_id, requester |-> current_user.id,
                                  shape |-> current_user.shape,
                                  exists |-> get_by_id(db, user_id) # {}],
                                 FaultOf(env, r), r, db)
    /\ UNCHANGED <<page, mail, wire>>

\* UserService.delete: whether a record was removed
UserService_delete(dbv, user_id) ==
    [ok |-> get_by_id(dbv, user_id) # {}, db |-> dbv \ get_by_id(dbv, user_id)]

ServiceEnv(call) ==
    [fault_at : {None}, text : {None}] \cup [fault_at : {call}, text : ExcTexts]

\* the role dependency of get_user, update_user and delete_user
RoleDenied(dbv) == Raise(HTTPException(403, "Operation not permitted"), <<>>, dbv)

\* get_user, lines 44-77
get_user(dbv, user_id, role, env) ==
    IF ~require_role({"ADMIN", "MANAGER"}, role) THEN RoleDenied(dbv)
    ELSE IF Faulty(env, "get_by_id")
    THEN Raise(UnexpectedError("Exception", env.text), <<"get_by_id">>, dbv)
    ELSE LET user == get_by_id(dbv, user_id)
         IN  IF user = {}
             THEN Raise(HTTPException(404, "User not found"), <<"get_by_id">>, dbv)
             ELSE Return(200, <<CHOOSE u \in user : TRUE>>, <<"get_by_id">>, dbv)

GetUser ==
    /\ \E user_id \in Ids, role \in RequesterRoles, env \in ServiceEnv("get_by_id") :
          LET r == get_user(db, user_id, role, env)
          IN  /\ db' = r.db
              /\ http' = Respond("get_user",
                                 [user_id |-> user_id, role |-> role,
                                  exists |-> get_by_id(db, user_id) # {}],
                                 FaultOf(env, r), r, db)
    /\ UNCHANGED <<page, mail, wire>>

\* user_update.model_dump(exclude_unset=True): the fields the request sets
UserUpdateChoices == { [github_profile_url |-> "https://github.com/ann"] }

\* update_user, lines 86-113
update_user(dbv, user_id, user_data, role, env) ==
    IF ~require_role({"ADMIN", "MANAGER"}, role) THEN RoleDenied(dbv)
    ELSE IF Faulty(env, "update")
    THEN Raise(UnexpectedError("Exception", env.text), <<"update">>, dbv)
    ELSE LET u == UserService_update(dbv, user_id, user_data)
         IN  IF u.user = <<>>
             THEN Raise(HTTPException(404, "User not found"), <<"update">>, dbv)
             ELSE Return(200, u.user, <<"update">>, u.db)

UpdateUser ==
    /\ \E user_id \in Ids, role \in RequesterRoles, user_data \in UserUpdateChoices,
          env \in ServiceEnv("update") :
          LET r == update_user(db, user_id, user_data, role, env)
          IN  /\ db' = r.db
              /\ http' = Respond("update_user",
                                 [user_id |-> user_id, role |-> role,
                                  exists |-> get_by_id(db, user_id) # {}],
                                 FaultOf(env, r), r, db)
    /\ UNCHANGED <<page, mail, wire>>

\* delete_user, lines 116-126
delete_user(dbv, user_id, role, env) ==
    IF ~require_role({"ADMIN", "MANAGER"}, role) THEN RoleDenied(dbv)
    ELSE IF Faulty(env, "delete")
    THEN Raise(UnexpectedError("Exception", env.text), <<"delete">>, dbv)
    ELSE LET d == UserService_delete(dbv, user_id)
         IN  IF ~d.ok
             THEN Raise(HTTPException(404, "User not found"), <<"delete">>, dbv)
             ELSE Return(204, <<>>, <<"delete">>, d.db)

DeleteUser ==
    /\ \E user_id \in Ids, role \in RequesterRoles, env \in ServiceEnv("delete") :
          LET r == delete_user(db, user_id, role, env)
          IN  /\ db' = r.db
              /\ http' = Respond("delete_user",
                                 [user_id |-> user_id, role |-> role,
                                  exists |-> get_by_id(db, user_id) # {}],
                                 FaultOf(env, r), r, db)
    /\ UNCHANGED <<page, mail, wire>>

\* accounts registered before the calls under study
Ann == User(1, [email |-> "ann@example.com", nickname |-> "ann"], "ADMIN")
Bob == User(2, [email |-> "bob@example.com", nickname |-> "bob"], "USER")

InitAccounts ==
    /\ page = IdlePage
    /\ mail = IdleMail
    /\ wire = <<>>
    /\ db \in {{}, {Ann}, {Ann, Bob}}
    /\ http = IdleHttp

NextAccounts ==
    \/ LoginHandler
    \/ GetUser
    \/ UpdateUser
    \/ DeleteUser
    \/ UpdateProfilePicture
    \/ UpdateUserProfessionalInfo
    \/ UpdateProfessionalInfo

SpecAccounts == InitAccounts /\ [][NextAccounts]_vars

----------------------------------------------------------------------------
(* Properties of the link builder (SpecLinks) *)

Returned == page.pc = "returned" /\ page.raised = None

\* C1: for every skip, total and limit > 0 the returned link set has a "next"
\* link iff skip + limit < total, and a "prev" link iff skip > 0.
C1_NextPrevPresence ==
    (Returned /\ page.limit > 0) =>
        /\ ("next" \in DOMAIN page.links) <=> (page.skip + page.limit < page.total)
        /\ ("prev" \in DOMAIN page.links) <=> (page.skip > 0)

C1_Witness ==
    /\ Returned /\ page.limit > 0
    /\ page.skip + page.limit = page.total
    /\ page.skip > 0
    /\ "next" \notin DOMAIN page.links
    /\ "prev" \in DOMAIN page.links

\* C2: for every total >= 0 and limit > 0 the "last" link targets
\* skip = max(0, floor((total-1)/limit)*limit): 0 when total = 0, never
\* negative, a multiple of limit, and below total whenever total > 0.
C2_LastSkip ==
    (Returned /\ page.limit > 0 /\ page.total >= 0) =>
        \E n \in 0..MaxTotal :
            /\ page.links["last"].href = SkipLimitHref(n, page.limit)
            /\ n = Max(0, ((page.total - 1) \div page.limit) * page.limit)
            /\ n % page.limit = 0
            /\ page.total = 0 => n = 0
            /\ page.total > 0 => (n < page.total /\ n + page.limit >= page.total)

C2_Witness ==
    /\ Returned /\ page.limit = 10 /\ page.total = 20
    /\ page.links["last"].href = SkipLimitHref(10, 10)

\* query text a filter that is not a pagination parameter adds to "self"
ExtraQuery == {"", "&role=ADMIN"}

----------------------------------------------------------------------------
(* Properties of the mail dispatcher and the email service (SpecMail) *)

WireCmds == [i \in 1..Len(wire) |-> wire[i].cmd]

NumSends == Cardinality({i \in 1..Len(wire) : wire[i].cmd = "send_message"})

\* C5: for every known email type send_user_email hands the dispatcher one
\* message whose body is the rendered template, whose To is
\* user_data['email'] and whose subject is mapped from the email type.
C5_ServiceMessage ==
    (mail.caller = "EmailService" /\ mail.message # <<>>) =>
        /\ mail.message[1].Subject = subject_map[mail.email_type]
        /\ mail.message[1].body = mail.rendered
        /\ mail.message[1].To = mail.user_email

AllTransportOk == wire # <<>> /\ \A i \in 1..Len(wire) : wire[i].ok

\* C6: when connect, secure-channel negotiation, login and send all succeed,
\* one send_email call (SMTPClient and SMTPConnection alike) logs in, then
\* sends exactly one message to the given recipient, then closes the
\* session, and returns without error.
C6_SuccessfulSend ==
    (mail.pc = "returned" /\ AllTransportOk) =>
        /\ mail.raised = None
        /\ mail.session = "closed"
        /\ WireCmds \in { <<"connect", "starttls", "login", "send_message", "quit">>,
                          <<"connect", "login", "send_message", "quit">> }
        /\ \A i \in 1..Len(wire) :
              wire[i].cmd = "send_message" => wire[i].msg.To = mail.recipient

\* C7: when starttls, login or send_message fails after the session was
\* opened, the session is closed before the call returns, the failure is
\* raised to the caller, and send_message is attempted at most once per call.
C7_FailureClosesSession ==
    /\ NumSends <= 1
    /\ (mail.pc = "returned" /\ mail.failed_at \in {"starttls", "login", "send_message"}) =>
          /\ mail.session = "closed"
          /\ wire[Len(wire)].cmd = "quit"
          /\ mail.raised # None

C7_Witness ==
    /\ mail.pc = "returned"
    /\ mail.failed_at = "send_message"
    /\ NumSends = 1
    /\ ~wire[Len(wire) - 1].ok
    /\ mail.session = "closed"
    /\ mail.raised = "SMTPException"

----------------------------------------------------------------------------
(* Properties of the route handlers (SpecRoutes, SpecAccounts) *)

\* C4: when register or create_user is called with an email for which
\* get_by_email already returns a user, the caller receives a Conflict-class
\* client error (not an internal-failure status) and UserService.create is
\* not called, so no second record is created.
C4_DuplicateEmailConflict ==
    (/\ http.handler \in {"register", "create_user"}
     /\ http.fault = None
     /\ http.args.email_taken) =>
        /\ http.status \in {400, 409}
        /\ \A i \in 1..Len(http.calls) : http.calls[i] # "create"
        /\ ~http.changed

OwnerOnlyHandlers ==
    {"update_profile_picture", "update_professional_info",
     "update_user_professional_info"}

\* C8: the three owner-only handlers call the user service's update only
\* when the requester's id equals the target user_id; otherwise they answer
\* Forbidden (403), the service is not called and no user record changes.
C8_OwnershipGuard ==
    (http.handler \in OwnerOnlyHandlers) =>
        /\ http.calls # <<>> => http.args.requester = http.args.user_id
        /\ http.args.requester # http.args.user_id =>
              /\ http.status = 403
              /\ http.calls = <<>>
              /\ ~http.changed

\* C9: in login, register and create_user an unexpected exception of a
\* collaborator is answered with 500 and a fixed generic detail that does
\* not depend on the exception's text.
C9_GenericInternalError ==
    (http.handler \in {"login", "register", "create_user"} /\ http.fault # None) =>
        /\ http.status = 500
        /\ http.detail \notin ExcTexts

\* C10: every pagination window list_users passes to
\* generate_pagination_links (and divides by for the page number) has
\* 0 <= skip and limit > 0, whatever skip and limit the request supplies.
C10_WindowInvariant ==
    (http.handler = "list_users" /\ http.window # <<>>) =>
        /\ 0 <= http.window[1].skip
        /\ http.window[1].limit > 0

\* C11: login asks is_account_locked before it verifies credentials: a
\* locked account is answered 400 and login_user is never called; a token is
\* issued only when the account is not locked and login_user returned a
\* user, and it carries sub = the user's email, role = the user's role name
\* and ttl = the configured expiry minutes; when login_user returns no user
\* the answer is 401 and no token is issued.
C11_LoginOrder ==
    (http.handler = "login") =>
        /\ (http.args.locked /\ http.calls # <<>> /\
            ~(http.fault # None /\ http.calls = <<"is_account_locked">>)) =>
              /\ http.status = 400
              /\ http.calls = <<"is_account_locked">>
              /\ http.token = <<>>
        /\ (\E i \in 1..Len(http.calls) : http.calls[i] = "login_user") =>
              /\ http.calls[1] = "is_account_locked"
              /\ ~http.args.locked
        /\ http.token # <<>> =>
              /\ http.status = 200
              /\ ~http.args.locked /\ http.args.matched
              /\ http.token[1].sub = http.args.username
              /\ \E u \in db : u.email = http.token[1].sub /\ u.role = http.token[1].role
              /\ http.token[1].ttl = AccessTokenExpireMinutes
        /\ (~http.args.locked /\ ~http.args.matched /\ http.fault = None) =>
              /\ http.status = 401
              /\ http.token = <<>>

C11_Witness ==
    /\ http.handler = "login"
    /\ http.args.locked
    /\ http.fault = None
    /\ http.status = 400
    /\ http.calls = <<"is_account_locked">>

UserIdHandlers ==
    {"get_user", "update_user", "delete_user"} \cup OwnerOnlyHandlers

\* C12: every handler that targets a user by user_id answers 404 when the
\* user service reports that no such user exists, and never returns a
\* success response for a missing user.
C12_MissingUserNotFound ==
    (http.handler \in UserIdHandlers /\ ~http.args.exists) =>
        /\ http.status \notin 200..299
        /\ (http.calls # <<>> /\ http.fault = None) => http.status = 404

CmdIndex(c) == {i \in 1..Len(wire) : wire[i].cmd = c}

\* C13: in SMTPClient.send_email and SMTPConnection.send_email alike,
\* starttls is issued if and only if the dispatcher was constructed with
\* use_tls = true, and when issued it comes after the session is opened and
\* before login.
C13_StartTlsOptional ==
    (mail.cls \in {"SMTPClient", "SMTPConnection"}) =>
        /\ CmdIndex("starttls") # {} => mail.attrs.use_tls
        /\ (mail.attrs.use_tls /\ mail.session # "none" /\
            mail.pc \in {"login", "send_message"}) => CmdIndex("starttls") # {}
        /\ \A i \in CmdIndex("starttls") :
              /\ i = 2 /\ wire[1].cmd = "connect" /\ wire[1].ok
              /\ \A j \in CmdIndex("login") : i < j

KnownEmailTypes ==
    {"email_verification", "verification_email", "password_reset", "account_locked"}

NotDispatched ==
    /\ mail.cls = None /\ mail.session = "none"
    /\ mail.message = <<>> /\ wire = <<>>

\* C14: send_user_email sends no message unless the email type is known and
\* its template rendered: an unknown email type raises ValueError before any
\* template is rendered, and the template reader's ValueError for a missing
\* template reaches the caller with the mail dispatcher never invoked.
C14_NoSendWithoutTemplate ==
    (mail.caller = "EmailService") =>
        /\ mail.email_type \notin KnownEmailTypes =>
              /\ mail.pc = "returned" /\ mail.raised = "ValueError"
              /\ mail.template = None /\ mail.rendered = None
              /\ NotDispatched
        /\ mail.template = "missing" =>
              /\ mail.pc = "returned" /\ mail.raised = "ValueError"
              /\ NotDispatched
        /\ ~NotDispatched =>
              /\ mail.email_type \in KnownEmailTypes
              /\ mail.template = "found" /\ mail.rendered # None

C14_Witness ==
    /\ mail.caller = "EmailService"
    /\ mail.email_type = "password_reset"
    /\ mail.template = "missing"
    /\ mail.raised = "ValueError"
    /\ NotDispatched

====
